---------------------------- MODULE Spec2Model ----------------------------
(***************************************************************************)
(* A model of OrcaSong's dataset split planner                             *)
(* (orcasong/tools/make_data_split.py) and of the track assembler of the   *)
(* event record extractor (orcasong/file_to_hits.py).                      *)
(*                                                                         *)
(* File paths are pairs <<dirpath, name>>; run ids, event fields and chunk *)
(* counts are small integers.  Python exceptions are modelled by a         *)
(* "raised" field or variable naming the exception.                        *)
(***************************************************************************)
EXTENDS Integers, Sequences, FiniteSets, TLC

(***************************************************************************)
(* Bounds of the model.                                                    *)
(***************************************************************************)
\* longest list handed to split in the pure-function specification
MaxLen == 3
\* largest chunk count (n_files_<dsplit>) that is configured
MaxChunks == 2
\* most .h5 files in the directory of one input group
MaxFiles == 2
\* largest run id stored in a file
MaxRunId == 2
\* most entries of the directory in the inventory-repetition specification
MaxDirEntries == 3
\* most rows of the McTracks table of an event
MaxTracks == 3
\* most rows of the hit matrix of an event
MaxHits == 1

\* smallest chunk count that is configured (zero and negative are inputs)
MinChunks == 0 - 1

VARIABLES
    \* ---- split as a pure function
    a,                \* the list handed to split
    n,                \* the chunk count handed to split
    a_split,          \* what the call produced: [raised, value]
    \* ---- one planning run (main)
    pc,               \* position of the run
    raised,           \* the exception that ended the run, "none" otherwise
    ip_group_keys,    \* the input groups of the config, in config order
    listdir,          \* group -> what os.listdir returns for the group's dir
    h5_run_id,        \* group -> name -> run id stored in that file
    run_ids_dsplit,   \* group -> dsplit -> cfg[key]['run_ids_<dsplit>'] or NoRange
    n_files,          \* dsplit -> cfg['n_files_<dsplit>']
    fpaths,           \* group -> cfg[key]['fpaths']
    run_ids,          \* group -> cfg[key]['run_ids']
    fpath_lists,      \* group -> dsplit -> the bucket list before chunking
    output,           \* dsplit -> cfg['output_<dsplit>'], an ordered dict
    output_lists,     \* the list files on disk, in the order they were opened
    keys,             \* the local variable keys of make_dsplit_list_files
    h5_open,          \* the data files that are open now
    n_opened,         \* path -> how often the file was opened
    n_closed,         \* path -> how often the file was closed
    gi,               \* index of the group being worked on
    fi,               \* index of the file being worked on
    di,               \* index of the dsplit the writer is at
    ci,               \* index of the chunk the writer is at (0-based, as in the code)
    \* ---- repeated inventory of one directory
    dirpath_entries,  \* the entries of the directory
    inventories,      \* one record [listing, filepaths] per inventory taken
    \* ---- the track assembler
    event_blob,
    file_particle_type,
    prod_ident,
    event_hits,
    event_track,      \* what get_tracks produced: [raised, value]
    \* ---- the hit assembler
    hits_blob,        \* the event blob handed to get_hits
    geo,              \* the geometry (calibration service) or None
    do_mc_hits,
    data_cuts,
    do4d,
    geo_applied,      \* the tables geo.apply was called with, in call order
    hits_return       \* what get_hits produced: [raised, value]

varsSplit == <<a, n, a_split>>
varsMain == <<pc, raised, ip_group_keys, listdir, h5_run_id, run_ids_dsplit, n_files,
              fpaths, run_ids, fpath_lists, output, output_lists, keys, h5_open,
              n_opened, n_closed, gi, fi, di, ci>>
varsRepro == <<dirpath_entries, inventories>>
varsTracks == <<event_blob, file_particle_type, prod_ident, event_hits, event_track>>
varsHits == <<hits_blob, geo, do_mc_hits, data_cuts, do4d, geo_applied, hits_return>>
vars == <<varsSplit, varsMain, varsRepro, varsTracks, varsHits>>

(***************************************************************************)
(* Helpers.                                                                *)
(***************************************************************************)
Min(x, y) == IF x <= y THEN x ELSE y

Range(s) == {s[i] : i \in DOMAIN s}

\* python slice s[lo:hi] for 0 <= lo <= hi <= len(s)
Slice(s, lo, hi) == SubSeq(s, lo + 1, hi)

RECURSIVE Concat(_)
Concat(ss) == IF ss = << >> THEN << >> ELSE Head(ss) \o Concat(Tail(ss))

\* all sequences over S of length at most len
SeqsUpTo(S, len) == UNION {[1..l -> S] : l \in 0..len}

\* the number of positions of s holding x
Count(s, x) == Cardinality({i \in DOMAIN s : s[i] = x})

\* s is a subsequence of t: the elements of s are found in t in their order
RECURSIVE IsSubseq(_, _)
IsSubseq(s, t) ==
    IF s = << >> THEN TRUE
    ELSE IF t = << >> THEN FALSE
    ELSE IF Head(s) = Head(t) THEN IsSubseq(Tail(s), Tail(t))
    ELSE IsSubseq(s, Tail(t))

NoValue == << >>
Returned(v) == [raised |-> "none", value |-> v]
Raise(e) == [raised |-> e, value |-> NoValue]
NotCalled == [raised |-> "not called", value |-> NoValue]

(***************************************************************************)
(* split(a, n)                                                             *)
(***************************************************************************)
\* a plausible slip: the remainder m is not spread over the first chunks
split_no_remainder(lst, cnt) ==
    IF cnt = 0 THEN Raise("ZeroDivisionError")
    ELSE IF cnt < 0 THEN Returned(<< >>)
    ELSE LET k == Len(lst) \div cnt
         IN  Returned([i \in 1..cnt |-> Slice(lst, (i - 1) * k, i * k)])

\* divmod(len(a), n) raises ZeroDivisionError for n = 0; for n < 0 it returns
\* and range(n) is empty, so the generator yields no chunk at all.
split(lst, cnt) ==
    IF cnt = 0 THEN Raise("ZeroDivisionError")
    ELSE IF cnt < 0 THEN Returned(<< >>)
    ELSE LET k == Len(lst) \div cnt
             m == Len(lst) % cnt
         IN  Returned([i \in 1..cnt |->
                 Slice(lst, (i - 1) * k + Min(i - 1, m), i * k + Min(i, m))])

(***************************************************************************)
(* get_h5_filepaths(dirpath)                                               *)
(***************************************************************************)
\* The values random.Random(42) hands to shuffle for a list of the given length:
\* shuffle draws j = randbelow(i + 1) for i = len - 1 down to 1.
RandBelow42(len) ==
    CASE len <= 1 -> << >>
      [] len = 2 -> <<0>>
      [] len = 3 -> <<2, 0>>
      [] len = 4 -> <<0, 0, 1>>
      [] len = 5 -> <<0, 0, 2, 1>>
      [] len = 6 -> <<5, 0, 0, 2, 1>>

\* x with the (0-based) positions i and j exchanged
Swap(x, i, j) == [x EXCEPT ![i + 1] = x[j + 1], ![j + 1] = x[i + 1]]

\* the Fisher-Yates loop of random.shuffle from position i downwards
RECURSIVE FisherYates(_, _, _)
FisherYates(x, draws, i) ==
    IF i < 1 THEN x
    ELSE FisherYates(Swap(x, i, draws[Len(x) - i]), draws, i - 1)

shuffle42(x) == FisherYates(x, RandBelow42(Len(x)), Len(x) - 1)

Entry(name, ext) == [name |-> name, ext |-> ext]
IsH5(f) == f.ext = ".h5"
Fpath(dirpath, f) == <<dirpath, f.name>>

\* listing is what os.listdir(dirpath) returned
get_h5_filepaths(dirpath, listing) ==
    LET h5 == SelectSeq(listing, IsH5)
    IN  shuffle42([i \in DOMAIN h5 |-> Fpath(dirpath, h5[i])])

(***************************************************************************)
(* add_fpaths_for_data_split_to_cfg(cfg, key)                              *)
(***************************************************************************)
DSplits == <<"train", "validate", "rest">>
DSplitSet == Range(DSplits)

NoRange == << >>

\* a plausible slip: the upper end of the range is excluded
InRangeHalfOpen(rng, run_id) ==
    /\ rng # NoRange
    /\ rng[1] <= run_id
    /\ run_id < rng[2]

\* 'run_ids_<dsplit>' in cfg[key] and low <= run_id <= high
InRange(rng, run_id) ==
    /\ rng # NoRange
    /\ rng[1] <= run_id
    /\ run_id <= rng[2]

\* a plausible slip: the run id is read at index i - 1, the previous file's
\* (for the first file python's index -1 reads the last one)
RECURSIVE MatchPrevious(_, _, _, _)
MatchPrevious(fps, rids, prev, rng) ==
    IF fps = << >> THEN << >>
    ELSE (IF InRange(rng, prev) THEN <<Head(fps)>> ELSE << >>)
             \o MatchPrevious(Tail(fps), Tail(rids), Head(rids), rng)

AppendMatchingOffByOne(fps, rids, rng) ==
    IF fps = << >> THEN << >> ELSE MatchPrevious(fps, rids, rids[Len(rids)], rng)

\* the first loop, for one dsplit: the paths whose run id is in the range, in order
RECURSIVE AppendMatching(_, _, _)
AppendMatching(fps, rids, rng) ==
    IF fps = << >> THEN << >>
    ELSE (IF InRange(rng, Head(rids)) THEN <<Head(fps)>> ELSE << >>)
             \o AppendMatching(Tail(fps), Tail(rids), rng)

\* an insertion-ordered dict as a sequence of [key, chunks]
DictKeys(d) == [i \in DOMAIN d |-> d[i].key]
DictHas(d, key) == \E i \in DOMAIN d : d[i].key = key
DictGet(d, key) == d[CHOOSE i \in DOMAIN d : d[i].key = key].chunks
DictSet(d, key, chunks) ==
    IF DictHas(d, key)
    THEN [i \in DOMAIN d |-> IF d[i].key = key THEN [key |-> key, chunks |-> chunks] ELSE d[i]]
    ELSE Append(d, [key |-> key, chunks |-> chunks])

\* the second loop from dsplit number d on: [raised, value], value the output dicts
RECURSIVE ChunkDSplits(_, _, _, _, _)
ChunkDSplits(out, lists, counts, key, d) ==
    IF d > Len(DSplits) THEN Returned(out)
    ELSE LET dsplit == DSplits[d]
             r == split(lists[dsplit], counts[dsplit])
         IN  IF lists[dsplit] = << >> THEN ChunkDSplits(out, lists, counts, key, d + 1)
             ELSE IF r.raised # "none" THEN [raised |-> r.raised, value |-> out]
             ELSE ChunkDSplits([out EXCEPT ![dsplit] = DictSet(@, key, r.value)],
                               lists, counts, key, d + 1)

(***************************************************************************)
(* The planning run: main                                                  *)
(***************************************************************************)
Key == ip_group_keys[gi]
DSplit == DSplits[di]

Unbound == [bound |-> FALSE, value |-> << >>]
Bound(v) == [bound |-> TRUE, value |-> v]

Running == raised = "none"

\* h5py.File(fpath, 'r') returned
H5Opened(fpath) ==
    /\ h5_open' = h5_open \cup {fpath}
    /\ n_opened' = [n_opened EXCEPT ![fpath] = @ + 1]

\* a plausible slip: f.close() is left out
H5ClosedNot(fpath) ==
    /\ h5_open' = h5_open
    /\ n_closed' = [n_closed EXCEPT ![fpath] = @ + 1]

\* f.close()
H5Closed(fpath) ==
    /\ h5_open' = h5_open \ {fpath}
    /\ n_closed' = [n_closed EXCEPT ![fpath] = @ + 1]

\* an exception leaves the function it is raised in; pc keeps the place
Raises(e) == raised' = e

\* ---- main, lines 329-335: the inventory of one group after the other
GetH5Filepaths ==
    /\ Running /\ pc = "inventory" /\ fi = 0
    /\ fpaths' = [fpaths EXCEPT ![Key] = get_h5_filepaths(Key, listdir[Key])]
    /\ fi' = 1
    /\ UNCHANGED <<pc, raised, ip_group_keys, listdir, h5_run_id, run_ids_dsplit, n_files,
                   run_ids, fpath_lists, output, output_lists, keys, h5_open, n_opened,
                   n_closed, gi, di, ci>>
    /\ UNCHANGED <<varsSplit, varsRepro, varsTracks, varsHits>>

\* get_number_of_evts_and_run_ids, line 155
InventoryOpen ==
    /\ Running /\ pc = "inventory" /\ fi \in 1..Len(fpaths[Key])
    /\ H5Opened(fpaths[Key][fi])
    /\ pc' = "inventory_read"
    /\ UNCHANGED <<raised, ip_group_keys, listdir, h5_run_id, run_ids_dsplit, n_files,
                   fpaths, run_ids, fpath_lists, output, output_lists, keys,
                   n_closed, gi, fi, di, ci>>
    /\ UNCHANGED <<varsSplit, varsRepro, varsTracks, varsHits>>

\* line 155 when the file cannot be opened
InventoryOpenFails ==
    /\ Running /\ pc = "inventory" /\ fi \in 1..Len(fpaths[Key])
    /\ Raises("IOError")
    /\ UNCHANGED <<pc, ip_group_keys, listdir, h5_run_id, run_ids_dsplit, n_files,
                   fpaths, run_ids, fpath_lists, output, output_lists, keys, h5_open,
                   n_opened, n_closed, gi, fi, di, ci>>
    /\ UNCHANGED <<varsSplit, varsRepro, varsTracks, varsHits>>

\* lines 157-164: read the run id of the first event, close
InventoryRead ==
    /\ Running /\ pc = "inventory_read"
    /\ run_ids' = [run_ids EXCEPT ![Key] = Append(@, h5_run_id[Key][fpaths[Key][fi][2]])]
    /\ H5Closed(fpaths[Key][fi])
    /\ fi' = fi + 1
    /\ pc' = "inventory"
    /\ UNCHANGED <<raised, ip_group_keys, listdir, h5_run_id, run_ids_dsplit, n_files,
                   fpaths, fpath_lists, output, output_lists, keys, n_opened, gi, di, ci>>
    /\ UNCHANGED <<varsSplit, varsRepro, varsTracks, varsHits>>

\* lines 157-161 when a read fails: f.close() is not reached
InventoryReadFails ==
    /\ Running /\ pc = "inventory_read"
    /\ Raises("IOError")
    /\ UNCHANGED <<pc, ip_group_keys, listdir, h5_run_id, run_ids_dsplit, n_files,
                   fpaths, run_ids, fpath_lists, output, output_lists, keys, h5_open,
                   n_opened, n_closed, gi, fi, di, ci>>
    /\ UNCHANGED <<varsSplit, varsRepro, varsTracks, varsHits>>

\* line 166 and the return to main: the mean divides by the number of files
InventoryReturn ==
    /\ Running /\ pc = "inventory" /\ fi = Len(fpaths[Key]) + 1
    /\ IF Len(fpaths[Key]) = 0
       THEN Raises("ZeroDivisionError") /\ UNCHANGED <<pc, gi, fi>>
       ELSE /\ UNCHANGED raised
            /\ IF gi < Len(ip_group_keys)
               THEN gi' = gi + 1 /\ fi' = 0 /\ pc' = pc
               ELSE gi' = 1 /\ fi' = 0 /\ pc' = "statistics"
    /\ UNCHANGED <<ip_group_keys, listdir, h5_run_id, run_ids_dsplit, n_files,
                   fpaths, run_ids, fpath_lists, output, output_lists, keys, h5_open,
                   n_opened, n_closed, di, ci>>
    /\ UNCHANGED <<varsSplit, varsRepro, varsTracks, varsHits>>

\* lines 337-342: cfg['print_only'] is read here and nowhere else
PrintOnly ==
    /\ Running /\ pc = "statistics"
    /\ \E print_only \in BOOLEAN : pc' = IF print_only THEN "exit" ELSE "plan"
    /\ UNCHANGED <<raised, ip_group_keys, listdir, h5_run_id, run_ids_dsplit, n_files,
                   fpaths, run_ids, fpath_lists, output, output_lists, keys, h5_open,
                   n_opened, n_closed, gi, fi, di, ci>>
    /\ UNCHANGED <<varsSplit, varsRepro, varsTracks, varsHits>>

\* lines 344-345: add_fpaths_for_data_split_to_cfg(cfg, key) for the next group
AddFpathsForDataSplitToCfg ==
    /\ Running /\ pc = "plan"
    /\ LET lists == [dsplit \in DSplitSet |->
                        AppendMatching(fpaths[Key], run_ids[Key], run_ids_dsplit[Key][dsplit])]
           r == ChunkDSplits(output, lists, n_files, Key, 1)
       IN  /\ fpath_lists' = [fpath_lists EXCEPT ![Key] = lists]
           /\ output' = r.value
           /\ raised' = r.raised
           /\ IF r.raised # "none" THEN UNCHANGED <<pc, gi, di>>
              ELSE IF gi < Len(ip_group_keys) THEN gi' = gi + 1 /\ UNCHANGED <<pc, di>>
              ELSE gi' = 1 /\ di' = 1 /\ pc' = "write_dsplit"
    /\ UNCHANGED <<ip_group_keys, listdir, h5_run_id, run_ids_dsplit, n_files,
                   fpaths, run_ids, output_lists, keys, h5_open, n_opened, n_closed,
                   fi, ci>>
    /\ UNCHANGED <<varsSplit, varsRepro, varsTracks, varsHits>>

(***************************************************************************)
(* make_dsplit_list_files(cfg)                                             *)
(***************************************************************************)
\* line 287-288: the chunk count of the first group of the dsplit
n_output_files == Len(output[DSplit][1].chunks)

\* The place (j, f) of the next path of list file c at or after (j, f): groups
\* whose chunk c is used up are passed.  j beyond the last group: the list file
\* is complete.  f = 0: group j has no chunk c (IndexError in line 307).
\* a plausible slip: only the first group of the dsplit is written
NextPathFirstGroup(groups_dict, c, j, f) ==
    IF j > 1 THEN <<Len(groups_dict) + 1, 1>>
    ELSE IF c + 1 > Len(groups_dict[j].chunks) THEN <<j, 0>>
    ELSE IF f <= Len(groups_dict[j].chunks[c + 1]) THEN <<j, f>>
    ELSE <<Len(groups_dict) + 1, 1>>

RECURSIVE NextPath(_, _, _, _)
NextPath(groups_dict, c, j, f) ==
    IF j > Len(groups_dict) THEN <<j, 1>>
    ELSE IF c + 1 > Len(groups_dict[j].chunks) THEN <<j, 0>>
    ELSE IF f <= Len(groups_dict[j].chunks[c + 1]) THEN <<j, f>>
    ELSE NextPath(groups_dict, c, j + 1, 1)

\* the path the writer is at
CurrentFpath == output[DSplit][gi].chunks[ci + 1][fi]

\* go on to the next path of the list file, or raise where there is no chunk
GoOn(pos) ==
    /\ gi' = pos[1]
    /\ fi' = pos[2]
    /\ raised' = IF pos[2] = 0 THEN "IndexError" ELSE "none"

\* lines 280-292
StartDSplit ==
    /\ Running /\ pc = "write_dsplit"
    /\ IF di > Len(DSplits) THEN pc' = "done" /\ UNCHANGED <<di, ci>>
       ELSE IF output[DSplit] = << >> THEN di' = di + 1 /\ UNCHANGED <<pc, ci>>
       ELSE ci' = 0 /\ pc' = "write_list" /\ UNCHANGED di
    /\ UNCHANGED <<raised, ip_group_keys, listdir, h5_run_id, run_ids_dsplit, n_files,
                   fpaths, run_ids, fpath_lists, output, output_lists, keys, h5_open,
                   n_opened, n_closed, gi, fi>>
    /\ UNCHANGED <<varsSplit, varsRepro, varsTracks, varsHits>>

\* lines 295-305: open list file i for writing; keys is set in the loop over j
OpenListFile ==
    /\ Running /\ pc = "write_list" /\ ci < n_output_files
    /\ output_lists' = Append(output_lists, [dsplit |-> DSplit, i |-> ci, lines |-> << >>])
    /\ keys' = Bound(DictKeys(output[DSplit]))
    /\ GoOn(NextPath(output[DSplit], ci, 1, 1))
    /\ pc' = "write_recount"
    /\ UNCHANGED <<ip_group_keys, listdir, h5_run_id, run_ids_dsplit, n_files,
                   fpaths, run_ids, fpath_lists, output, h5_open, n_opened, n_closed,
                   di, ci>>
    /\ UNCHANGED <<varsSplit, varsRepro, varsTracks, varsHits>>

\* line 309, get_number_of_evts line 118
RecountOpen ==
    /\ Running /\ pc = "write_recount" /\ gi <= Len(output[DSplit])
    /\ H5Opened(CurrentFpath)
    /\ pc' = "write_line"
    /\ UNCHANGED <<raised, ip_group_keys, listdir, h5_run_id, run_ids_dsplit, n_files,
                   fpaths, run_ids, fpath_lists, output, output_lists, keys,
                   n_closed, gi, fi, di, ci>>
    /\ UNCHANGED <<varsSplit, varsRepro, varsTracks, varsHits>>

\* a plausible slip: a file that cannot be opened is passed over, its path is
\* written and the run goes on
RecountOpenSkips ==
    /\ Running /\ pc = "write_recount" /\ gi <= Len(output[DSplit])
    /\ output_lists' = [output_lists EXCEPT ![Len(output_lists)].lines = Append(@, CurrentFpath)]
    /\ GoOn(NextPath(output[DSplit], ci, gi, fi + 1))
    /\ UNCHANGED <<pc, ip_group_keys, listdir, h5_run_id, run_ids_dsplit, n_files,
                   fpaths, run_ids, fpath_lists, output, keys, h5_open,
                   n_opened, n_closed, di, ci>>
    /\ UNCHANGED <<varsSplit, varsRepro, varsTracks, varsHits>>

\* line 118 when the file cannot be opened
RecountOpenFails ==
    /\ Running /\ pc = "write_recount" /\ gi <= Len(output[DSplit])
    /\ Raises("IOError")
    /\ UNCHANGED <<pc, ip_group_keys, listdir, h5_run_id, run_ids_dsplit, n_files,
                   fpaths, run_ids, fpath_lists, output, output_lists, keys, h5_open,
                   n_opened, n_closed, gi, fi, di, ci>>
    /\ UNCHANGED <<varsSplit, varsRepro, varsTracks, varsHits>>

\* lines 119-120 when a read fails: f.close() is not reached
RecountReadFails ==
    /\ Running /\ pc = "write_line"
    /\ Raises("IOError")
    /\ UNCHANGED <<pc, ip_group_keys, listdir, h5_run_id, run_ids_dsplit, n_files,
                   fpaths, run_ids, fpath_lists, output, output_lists, keys, h5_open,
                   n_opened, n_closed, gi, fi, di, ci>>
    /\ UNCHANGED <<varsSplit, varsRepro, varsTracks, varsHits>>

\* lines 119-121 and 310: close the data file, write its path to the list file
WriteLine ==
    /\ Running /\ pc = "write_line"
    /\ H5Closed(CurrentFpath)
    /\ output_lists' = [output_lists EXCEPT ![Len(output_lists)].lines = Append(@, CurrentFpath)]
    /\ GoOn(NextPath(output[DSplit], ci, gi, fi + 1))
    /\ pc' = "write_recount"
    /\ UNCHANGED <<ip_group_keys, listdir, h5_run_id, run_ids_dsplit, n_files,
                   fpaths, run_ids, fpath_lists, output, keys, n_opened, di, ci>>
    /\ UNCHANGED <<varsSplit, varsRepro, varsTracks, varsHits>>

\* the end of the with block of line 303
CloseListFile ==
    /\ Running /\ pc = "write_recount" /\ gi > Len(output[DSplit])
    /\ ci' = ci + 1
    /\ pc' = "write_list"
    /\ UNCHANGED <<raised, ip_group_keys, listdir, h5_run_id, run_ids_dsplit, n_files,
                   fpaths, run_ids, fpath_lists, output, output_lists, keys, h5_open,
                   n_opened, n_closed, gi, fi, di>>
    /\ UNCHANGED <<varsSplit, varsRepro, varsTracks, varsHits>>

\* lines 313-316: print keys[i] for every group of the dsplit
PrintDSplit ==
    /\ Running /\ pc = "write_list" /\ ci >= n_output_files
    /\ IF ~keys.bound THEN Raises("NameError") /\ UNCHANGED <<pc, di>>
       ELSE IF Len(keys.value) < Len(output[DSplit])
            THEN Raises("IndexError") /\ UNCHANGED <<pc, di>>
       ELSE di' = di + 1 /\ pc' = "write_dsplit" /\ UNCHANGED raised
    /\ UNCHANGED <<ip_group_keys, listdir, h5_run_id, run_ids_dsplit, n_files,
                   fpaths, run_ids, fpath_lists, output, output_lists, keys, h5_open,
                   n_opened, n_closed, gi, fi, ci>>
    /\ UNCHANGED <<varsSplit, varsRepro, varsTracks, varsHits>>

(***************************************************************************)
(* The inputs of a run and the specifications of the planner.              *)
(***************************************************************************)
IdleSplit == a = << >> /\ n = 1 /\ a_split = NotCalled
IdleRepro == dirpath_entries = {} /\ inventories = << >>
IdleTracks ==
    /\ event_blob = << >>
    /\ file_particle_type = "undefined"
    /\ prod_ident = << >>
    /\ event_hits = << >>
    /\ event_track = NotCalled
IdleHits ==
    /\ hits_blob = << >>
    /\ geo = << >>
    /\ do_mc_hits = FALSE
    /\ data_cuts = << >>
    /\ do4d = << >>
    /\ geo_applied = << >>
    /\ hits_return = NotCalled
IdleMain ==
    /\ pc = "idle" /\ raised = "none" /\ ip_group_keys = << >>
    /\ listdir = << >> /\ h5_run_id = << >> /\ run_ids_dsplit = << >>
    /\ n_files = << >> /\ fpaths = << >> /\ run_ids = << >> /\ fpath_lists = << >>
    /\ output = << >> /\ output_lists = << >> /\ keys = Unbound /\ h5_open = {}
    /\ n_opened = << >> /\ n_closed = << >> /\ gi = 0 /\ fi = 0 /\ di = 0 /\ ci = 0

\* a run id range [low, high] of the config, or none
RangeOptions ==
    {NoRange} \cup {r \in (1..MaxRunId) \X (1..MaxRunId) : r[1] <= r[2]}

Listing(nf) == [i \in 1..nf |-> Entry(i, ".h5")]

\* the state of main after parse_input, for the given groups and config
Configured(groups, rids, ranges, counts) ==
    /\ pc = "inventory" /\ raised = "none"
    /\ ip_group_keys = groups
    /\ h5_run_id = rids
    /\ listdir = [g \in Range(groups) |-> Listing(Len(rids[g]))]
    /\ run_ids_dsplit = ranges
    /\ n_files = counts
    /\ fpaths = [g \in Range(groups) |-> << >>]
    /\ run_ids = [g \in Range(groups) |-> << >>]
    /\ fpath_lists = [g \in Range(groups) |-> [dsplit \in DSplitSet |-> << >>]]
    /\ output = [dsplit \in DSplitSet |-> << >>]
    /\ output_lists = << >>
    /\ keys = Unbound
    /\ h5_open = {}
    /\ n_opened = [p \in UNION {{<<g, i>> : i \in DOMAIN rids[g]} : g \in Range(groups)} |-> 0]
    /\ n_closed = [p \in UNION {{<<g, i>> : i \in DOMAIN rids[g]} : g \in Range(groups)} |-> 0]
    /\ gi = 1 /\ fi = 0 /\ di = 0 /\ ci = 0

Groups == <<"g1", "g2">>

\* the ranges drawn for a whole run: none, the first run, all runs, the last run
RunRangeOptions == {NoRange, <<1, 1>>, <<1, MaxRunId>>, <<MaxRunId, MaxRunId>>}

\* the run ids of the files of a directory, ascending with the file name
RunIdsByName(ids) ==
    {s \in SeqsUpTo(ids, MaxFiles) : \A i, j \in DOMAIN s : i < j => s[i] <= s[j]}

\* Two input groups; both configure the same run id ranges, and the three
\* dsplits the same chunk count.  The files are of the first or of the last
\* run: the ranges that are drawn tell no other runs apart.
Init ==
    /\ IdleSplit /\ IdleRepro /\ IdleTracks /\ IdleHits
    /\ \E rids \in [Range(Groups) -> RunIdsByName({1, MaxRunId})],
          rng \in [DSplitSet -> RunRangeOptions],
          cnt \in MinChunks..MaxChunks :
          Configured(Groups, rids, [g \in Range(Groups) |-> rng],
                     [dsplit \in DSplitSet |-> cnt])

Next ==
    \/ GetH5Filepaths
    \/ InventoryOpen
    \/ InventoryOpenFails
    \/ InventoryRead
    \/ InventoryReadFails
    \/ InventoryReturn
    \/ PrintOnly
    \/ AddFpathsForDataSplitToCfg
    \/ StartDSplit
    \/ OpenListFile
    \/ RecountOpen
    \/ RecountOpenFails
    \/ RecountReadFails
    \/ WriteLine
    \/ CloseListFile
    \/ PrintDSplit

Spec == Init /\ [][Next]_vars

(***************************************************************************)
(* split as a pure function: the inputs are drawn, the call is made.       *)
(***************************************************************************)
InitSplit ==
    /\ IdleMain /\ IdleRepro /\ IdleTracks /\ IdleHits
    /\ a \in SeqsUpTo(1..MaxLen, MaxLen)
    /\ n \in MinChunks..MaxChunks
    /\ a_split = NotCalled

SplitCall ==
    /\ a_split = NotCalled
    /\ a_split' = split(a, n)
    /\ UNCHANGED <<a, n>>
    /\ UNCHANGED <<varsMain, varsRepro, varsTracks, varsHits>>

SpecSplit == InitSplit /\ [][SplitCall]_vars

RECURSIVE SumLens(_)
SumLens(ss) == IF ss = << >> THEN 0 ELSE Len(Head(ss)) + SumLens(Tail(ss))

\* C1: for a chunk count n >= 1, split(a, n) returns n contiguous chunks that
\* concatenate to a; the first len(a) mod n chunks have size len(a) div n + 1,
\* the others len(a) div n, so the sizes differ by at most 1 and sum to len(a).
SplitPartitions ==
    (a_split # NotCalled /\ n >= 1) =>
        /\ a_split.raised = "none"
        /\ LET chunks == a_split.value
               k == Len(a) \div n
               m == Len(a) % n
           IN  /\ Len(chunks) = n
               /\ Concat(chunks) = a
               /\ \A i \in 1..n : Len(chunks[i]) = IF i <= m THEN k + 1 ELSE k
               /\ \A i, j \in 1..n : Len(chunks[i]) - Len(chunks[j]) <= 1
               /\ SumLens(chunks) = Len(a)

\* a list of 3 was split in 2: the sizes are 2 and 1
SplitPartitionsWitness ==
    /\ a_split # NotCalled /\ a_split.raised = "none"
    /\ n = 2 /\ Len(a) = 3
    /\ Len(a_split.value[1]) = 2 /\ Len(a_split.value[2]) = 1

(***************************************************************************)
(* add_fpaths_for_data_split_to_cfg for the one group of a run, called in  *)
(* the state main has reached after the inventory; every dsplit has its    *)
(* own range; train and rest share a chunk count, validate has its own.    *)
(***************************************************************************)
OneGroup == <<"g1">>

\* the chunk counts drawn for a dsplit: negative, zero, one, the largest
CountOptions == {MinChunks, 0, 1, MaxChunks}

InitAssign ==
    /\ IdleSplit /\ IdleRepro /\ IdleTracks /\ IdleHits
    /\ \E rids \in RunIdsByName(1..MaxRunId) \ {<< >>},
          rng \in [DSplitSet -> RangeOptions],
          c1 \in CountOptions, c2 \in CountOptions :
          LET fps == get_h5_filepaths("g1", Listing(Len(rids)))
              cnt == [dsplit \in DSplitSet |-> IF dsplit = "validate" THEN c2 ELSE c1]
          IN  /\ pc = "plan" /\ raised = "none"
              /\ ip_group_keys = OneGroup
              /\ h5_run_id = [g \in Range(OneGroup) |-> rids]
              /\ listdir = [g \in Range(OneGroup) |-> Listing(Len(rids))]
              /\ run_ids_dsplit = [g \in Range(OneGroup) |-> rng]
              /\ n_files = cnt
              /\ fpaths = [g \in Range(OneGroup) |-> fps]
              /\ run_ids = [g \in Range(OneGroup) |-> [i \in DOMAIN fps |-> rids[fps[i][2]]]]
              /\ fpath_lists = [g \in Range(OneGroup) |-> [dsplit \in DSplitSet |-> << >>]]
              /\ output = [dsplit \in DSplitSet |-> << >>]
              /\ output_lists = << >>
              /\ keys = Unbound
              /\ h5_open = {}
              /\ n_opened = [p \in Range(fps) |-> 1]
              /\ n_closed = [p \in Range(fps) |-> 1]
              /\ gi = 1 /\ fi = 0 /\ di = 0 /\ ci = 0

SpecAssign == InitAssign /\ [][AddFpathsForDataSplitToCfg]_vars

\* the first loop of the call has run for every group
Assigned == pc # "plan" \/ raised # "none"
\* the call has returned for every group
Planned == pc = "write_dsplit" /\ raised = "none"

InBucket(g, i, dsplit) == fpaths[g][i] \in Range(fpath_lists[g][dsplit])

\* C2: once the call has completed for a group, the chunks of every dsplit hold
\* each path assigned to the dsplit exactly once and nothing else.
BucketCoverage ==
    Planned =>
        \A g \in Range(ip_group_keys), dsplit \in DSplitSet :
            fpath_lists[g][dsplit] # << >> =>
                /\ DictHas(output[dsplit], g)
                /\ LET chunks == DictGet(output[dsplit], g)
                   IN  /\ Concat(chunks) = fpath_lists[g][dsplit]
                       /\ \A p \in Range(fpath_lists[g][dsplit]) :
                              Count(Concat(chunks), p) = 1

\* C3: a chunk count N <= 0 is rejected: where a dsplit with files is to be cut
\* in N <= 0 chunks the run ends with the division error, no chunk list is
\* stored for it and no list file is written.
NonPositiveCountRejected ==
    \A g \in Range(ip_group_keys), dsplit \in DSplitSet :
        (fpath_lists[g][dsplit] # << >> /\ n_files[dsplit] <= 0) =>
            /\ raised = "ZeroDivisionError"
            /\ ~DictHas(output[dsplit], g)
            /\ output_lists = << >>

\* C4 as claimed: two files of a group with the same run id are never in two
\* different dsplits.
RunNeverSplit ==
    Assigned =>
        \A g \in Range(ip_group_keys) :
            \A i, j \in DOMAIN fpaths[g] :
                \A d1, d2 \in DSplitSet :
                    (i # j /\ d1 # d2 /\ run_ids[g][i] = run_ids[g][j]) =>
                        ~(InBucket(g, i, d1) /\ InBucket(g, j, d2))

\* C4 as amended: the files of a group that share a run id are in exactly the
\* same dsplits, and files of one run are found in two different dsplits only
\* where the ranges of both dsplits contain that run id.
RunSharesBuckets ==
    Assigned =>
        \A g \in Range(ip_group_keys) :
            \A i, j \in DOMAIN fpaths[g] :
                run_ids[g][i] = run_ids[g][j] =>
                    /\ \A dsplit \in DSplitSet : InBucket(g, i, dsplit) <=> InBucket(g, j, dsplit)
                    /\ \A d1, d2 \in DSplitSet :
                           (d1 # d2 /\ InBucket(g, i, d1) /\ InBucket(g, j, d2)) =>
                               /\ InRange(run_ids_dsplit[g][d1], run_ids[g][i])
                               /\ InRange(run_ids_dsplit[g][d2], run_ids[g][i])

\* two files of one run are both in train, a file of another run is elsewhere
RunSharesBucketsWitness ==
    /\ Assigned
    /\ \E g \in Range(ip_group_keys) :
           \E i, j \in DOMAIN fpaths[g] :
               /\ i # j /\ run_ids[g][i] = run_ids[g][j]
               /\ InBucket(g, i, "train") /\ InBucket(g, j, "train")
               /\ ~InBucket(g, i, "validate")

\* C10: a path is in the list of a dsplit exactly if the group configures a
\* range for the dsplit and low <= run_id <= high; each list is a subsequence
\* of the group's shuffled file list; fpaths and run_ids are as the inventory
\* left them.
AssignedIffInRange ==
    Assigned =>
        \A g \in Range(ip_group_keys) :
            /\ \A dsplit \in DSplitSet :
                   /\ \A i \in DOMAIN fpaths[g] :
                          InBucket(g, i, dsplit) <=>
                              /\ run_ids_dsplit[g][dsplit] # NoRange
                              /\ run_ids_dsplit[g][dsplit][1] <= run_ids[g][i]
                              /\ run_ids[g][i] <= run_ids_dsplit[g][dsplit][2]
                   /\ IsSubseq(fpath_lists[g][dsplit], fpaths[g])
            /\ fpaths[g] = get_h5_filepaths(g, listdir[g])
            /\ run_ids[g] = [i \in DOMAIN fpaths[g] |-> h5_run_id[g][fpaths[g][i][2]]]

\* a file whose run id is the upper end of a range is in, one above it is out
AssignedIffInRangeWitness ==
    /\ Assigned
    /\ \E g \in Range(ip_group_keys) :
           \E i, j \in DOMAIN fpaths[g] :
               /\ run_ids_dsplit[g]["train"] # NoRange
               /\ run_ids_dsplit[g]["train"][1] < run_ids_dsplit[g]["train"][2]
               /\ run_ids[g][i] = run_ids_dsplit[g]["train"][2]
               /\ InBucket(g, i, "train")
               /\ run_ids_dsplit[g]["validate"] # NoRange
               /\ run_ids[g][j] > run_ids_dsplit[g]["validate"][2]
               /\ ~InBucket(g, j, "validate")

(***************************************************************************)
(* Properties of a whole run.                                              *)
(***************************************************************************)
\* the list files of a dsplit, in the order they were opened
ListFilesOf(dsplit) ==
    LET OfDSplit(lf) == lf.dsplit = dsplit
    IN  SelectSeq(output_lists, OfDSplit)

\* every line of the given list files, in order
AllLines(lfs) == Concat([i \in DOMAIN lfs |-> lfs[i].lines])

\* how often a path is written to the list files
Written(p) == Count(AllLines(output_lists), p)

\* the plan of the dsplit holds the path in some chunk of some group
PlanHolds(dsplit, p) ==
    \E j \in DOMAIN output[dsplit] :
        \E c \in DOMAIN output[dsplit][j].chunks : p \in Range(output[dsplit][j].chunks[c])

InInventory == pc \in {"inventory", "inventory_read"}
InRecount == pc \in {"write_recount", "write_line"}

\* C6 as claimed: in a run that completes every file was opened and closed
\* exactly twice, and never is more than one data file open.
OpenedExactlyTwice ==
    /\ Cardinality(h5_open) <= 1
    /\ pc = "done" => \A p \in DOMAIN n_opened : n_opened[p] = 2 /\ n_closed[p] = 2

\* C6 as amended: in a run that completes every file was opened and closed
\* once in the inventory and once more for every list file its path was
\* written to, which is once per dsplit whose plan holds it; never is more
\* than one data file open.
OpenedOncePerListing ==
    /\ Cardinality(h5_open) <= 1
    /\ pc = "done" =>
           \A p \in DOMAIN n_opened :
               /\ n_opened[p] = 1 + Written(p)
               /\ n_closed[p] = n_opened[p]
               /\ Written(p) = Cardinality({dsplit \in DSplitSet : PlanHolds(dsplit, p)})

\* a completed run in which one file is in no dsplit and another in two
OpenedOncePerListingWitness ==
    /\ pc = "done"
    /\ \E p, q \in DOMAIN n_opened :
           /\ n_opened[p] = 1 /\ n_closed[p] = 1
           /\ n_opened[q] = 3 /\ n_closed[q] = 3

\* C7 as claimed: when the run is aborted by an I/O failure no list file has
\* been written.
NoListFileAtAbort ==
    raised = "IOError" => output_lists = << >>

\* the paths list file ci of the dsplit is to hold
ListFileContent == Concat([j \in DOMAIN output[DSplit] |-> output[DSplit][j].chunks[ci + 1]])

\* C7 as amended: no file is passed over: a path is written to a list file
\* only after its recount has opened and closed the file.  When an I/O failure
\* aborts the inventory no list file has been written; when it aborts the
\* recount, the list files opened so far remain, the last of them holding the
\* paths before the file that failed.
AbortLeavesWrittenLists ==
    /\ \A p \in DOMAIN n_closed :
           Written(p) = IF n_closed[p] = 0 THEN 0 ELSE n_closed[p] - 1
    /\ (raised = "IOError" /\ InInventory) =>
           /\ output_lists = << >>
           /\ \A dsplit \in DSplitSet : output[dsplit] = << >>
    /\ (raised = "IOError" /\ InRecount) =>
           LET last == output_lists[Len(output_lists)]
           IN  /\ output_lists # << >>
               /\ last.dsplit = DSplit /\ last.i = ci
               /\ Len(last.lines) < Len(ListFileContent)
               /\ last.lines = SubSeq(ListFileContent, 1, Len(last.lines))
               /\ ListFileContent[Len(last.lines) + 1] = CurrentFpath

\* the recount failed after a complete list file and a line of the next one
AbortLeavesWrittenListsWitness ==
    /\ raised = "IOError" /\ InRecount
    /\ Len(output_lists) >= 2
    /\ output_lists[1].lines # << >>
    /\ output_lists[Len(output_lists)].lines # << >>

\* the writer is done with dsplit number k
WriterPast(k) ==
    \/ pc = "done"
    \/ pc \in {"write_dsplit", "write_list", "write_recount", "write_line"} /\ k < di

\* C8: for every dsplit of the plan there is one list file per chunk index,
\* as many as the first group has chunks; list file i holds chunk i of every
\* group in group order and file order, so every path of the dsplit's plan is
\* in exactly one of its list files; all groups of a dsplit have the same
\* number of chunks.
ListFilesCoverPlan ==
    /\ \A dsplit \in DSplitSet :
           \A j1, j2 \in DOMAIN output[dsplit] :
               Len(output[dsplit][j1].chunks) = Len(output[dsplit][j2].chunks)
    /\ \A k \in DOMAIN DSplits :
           WriterPast(k) =>
               LET groups_dict == output[DSplits[k]]
                   lfs == ListFilesOf(DSplits[k])
               IN  IF groups_dict = << >> THEN lfs = << >>
                   ELSE /\ Len(lfs) = Len(groups_dict[1].chunks)
                        /\ \A i \in DOMAIN lfs :
                               /\ lfs[i].i = i - 1
                               /\ lfs[i].lines =
                                      Concat([j \in DOMAIN groups_dict |-> groups_dict[j].chunks[i]])
                        /\ \A j \in DOMAIN groups_dict :
                               \A p \in Range(Concat(groups_dict[j].chunks)) :
                                   Count(AllLines(lfs), p) = 1

\* a completed run whose train plan has two groups and two chunks, the second
\* list file holding paths of both groups
ListFilesCoverPlanWitness ==
    /\ pc = "done"
    /\ Len(output["train"]) = 2
    /\ Len(output["train"][1].chunks) = 2
    /\ \E i \in DOMAIN output_lists :
           /\ output_lists[i].dsplit = "train" /\ output_lists[i].i = 1
           /\ \E x, y \in Range(output_lists[i].lines) : x[1] # y[1]

(***************************************************************************)
(* The inventory of one directory, taken twice: os.listdir returns the     *)
(* entries of a directory in arbitrary order, and get_h5_filepaths         *)
(* shuffles the list in the order it got it.                               *)
(***************************************************************************)
DirEntries == {Entry(name, ext) : name \in 1..MaxDirEntries, ext \in {".h5", ".txt"}}

\* the orders in which the entries of a directory can be listed
Listings(entries) ==
    {l \in [1..Cardinality(entries) -> entries] :
        \A i, j \in 1..Cardinality(entries) : i # j => l[i] # l[j]}

InitRepro ==
    /\ IdleSplit /\ IdleMain /\ IdleTracks /\ IdleHits
    /\ dirpath_entries \in {d \in SUBSET DirEntries : Cardinality(d) <= MaxDirEntries}
    /\ inventories = << >>

\* main line 331 in one of two runs over the same directory
CollectFilepaths ==
    /\ Len(inventories) < 2
    /\ \E listing \in Listings(dirpath_entries) :
           inventories' = Append(inventories,
               [listing |-> listing, filepaths |-> get_h5_filepaths("dir", listing)])
    /\ UNCHANGED dirpath_entries
    /\ UNCHANGED <<varsSplit, varsMain, varsTracks, varsHits>>

SpecRepro == InitRepro /\ [][CollectFilepaths]_vars

\* C5: two inventories of the same directory contents give the same file order.
SameOrderEveryRun ==
    \A i, j \in DOMAIN inventories : inventories[i].filepaths = inventories[j].filepaths

(***************************************************************************)
(* get_tracks(event_blob, file_particle_type, event_hits, prod_ident)      *)
(*                                                                         *)
(* An event blob is a record of tables; floats are integers here, a mean   *)
(* is the integer quotient, not-a-number is the string "nan".              *)
(***************************************************************************)
None == << >>
NaN == "nan"

\* astype('float32'): integers up to 2^24 are exact, up to 2^25 they are
\* rounded to the nearest even integer (ties to the even mantissa)
Float32(x) ==
    IF x <= 16777216 THEN x
    ELSE IF x % 2 = 0 THEN x
    ELSE IF ((x - 1) \div 2) % 2 = 0 THEN x - 1 ELSE x + 1

RECURSIVE SumOver(_)
SumOver(xs) == IF xs = << >> THEN 0 ELSE Head(xs) + SumOver(Tail(xs))

\* np.where(bjorken_y_array != 0.0)[0][0]
get_primary_track_index(blob) ==
    LET nonzero == {i \in DOMAIN blob.McTracks : blob.McTracks[i].bjorkeny # 0}
    IN  IF nonzero = {} THEN Raise("IndexError")
        ELSE Returned(CHOOSE i \in nonzero : \A j \in nonzero : i <= j)

\* mean time of the hits with triggered == 1, minus the interaction time
get_time_residual_nu_interaction_mean_triggered_hits(time_interaction, hits) ==
    LET IsTriggered(h) == h[5] = 1
        trig == SelectSeq(hits, IsTriggered)
    IN  IF trig = << >> THEN NaN
        ELSE (SumOver([i \in DOMAIN trig |-> trig[i][4]]) \div Len(trig)) - time_interaction

\* np.average(values, weights=weights)
Average(values, weights) ==
    SumOver([i \in DOMAIN values |-> values[i] * weights[i]]) \div SumOver(weights)

\* event_blob[4]: the key is the integer 4, written "4" here; the keys of a
\* blob are the names of its tables
IntKey4 == "4"

get_tracks(blob, particle_type, hits, prod) ==
    LET tracks == blob.McTracks
        event_id == blob.EventInfo.event_id
        run_id == IF "Header" \in DOMAIN blob THEN Float32(blob.Header.run_id)
                  ELSE Float32(blob.RawHeader.run_id)
        Finish(track) == Returned(IF prod # None THEN Append(track, prod[1]) ELSE track)
    IN  CASE particle_type = "undefined" -> Finish(<<event_id, run_id, 0>>)
          [] particle_type = "muon" ->
                IF Len(tracks) < 2 THEN Raise("IndexError")
                ELSE IF IntKey4 \notin DOMAIN blob THEN Raise("KeyError")
                ELSE LET mu == tracks[2]
                         rest == Tail(tracks)
                         weights == [i \in DOMAIN blob[IntKey4].McTracks |->
                                        blob[IntKey4].McTracks[i].energy]
                     IN  IF SumOver(Tail(weights)) = 0 THEN Raise("ZeroDivisionError")
                         ELSE Finish(<<event_id, mu.type,
                                  SumOver([i \in DOMAIN tracks |-> tracks[i].energy]),
                                  mu.is_cc, mu.bjorkeny, mu.dir_x, mu.dir_y, mu.dir_z,
                                  mu.time, run_id,
                                  Average([i \in DOMAIN rest |-> rest[i].pos_x], Tail(weights)),
                                  Average([i \in DOMAIN rest |-> rest[i].pos_y], Tail(weights)),
                                  Average([i \in DOMAIN rest |-> rest[i].pos_z], Tail(weights)),
                                  Len(tracks) - 1>>)
          [] particle_type = "neutrino" ->
                LET p == get_primary_track_index(blob)
                IN  IF p.raised # "none" THEN p
                    ELSE LET nu == tracks[p.value]
                         IN  Finish(<<event_id, nu.type, nu.energy, nu.is_cc, nu.bjorkeny,
                                  nu.dir_x, nu.dir_y, nu.dir_z, nu.time, run_id,
                                  nu.pos_x, nu.pos_y, nu.pos_z,
                                  get_time_residual_nu_interaction_mean_triggered_hits(
                                      nu.time, hits)>>)
          [] OTHER -> Raise("ValueError")

\* the rows of McTracks that are drawn: bjorkeny and energy vary
Track(bjorkeny, energy) ==
    [type |-> IF bjorkeny # 0 THEN 14 ELSE 13, energy |-> energy, is_cc |-> 1,
     bjorkeny |-> bjorkeny, time |-> 0, dir_x |-> 0, dir_y |-> 0, dir_z |-> 1,
     pos_x |-> energy, pos_y |-> 0, pos_z |-> bjorkeny]
TrackOptions == {Track(b, e) : b \in 0..1, e \in 1..2}

\* the rows of the hit matrix that are drawn: [pos_x, pos_y, pos_z, time, triggered]
HitOptions == {<<0, 0, 0, t, trig>> : t \in 1..2, trig \in 0..1}

\* the blobs that are drawn: the run id is in Header or in RawHeader
Blobs ==
    {[EventInfo |-> [event_id |-> 5], Header |-> [run_id |-> r], McTracks |-> t] :
        r \in {100, 16777217}, t \in SeqsUpTo(TrackOptions, MaxTracks)}
    \cup
    {[EventInfo |-> [event_id |-> 5], RawHeader |-> [run_id |-> 100], McTracks |-> t] :
        t \in SeqsUpTo(TrackOptions, MaxTracks)}

InitTracks ==
    /\ IdleSplit /\ IdleMain /\ IdleRepro /\ IdleHits
    /\ event_blob \in Blobs
    /\ file_particle_type \in {"undefined", "muon", "neutrino", "tau"}
    /\ prod_ident \in {None, <<7>>}
    /\ event_hits \in SeqsUpTo(HitOptions, MaxHits)
    /\ event_track = NotCalled

GetTracks ==
    /\ event_track = NotCalled
    /\ event_track' = get_tracks(event_blob, file_particle_type, event_hits, prod_ident)
    /\ UNCHANGED <<event_blob, file_particle_type, prod_ident, event_hits>>
    /\ UNCHANGED <<varsSplit, varsMain, varsRepro, varsHits>>

SpecTracks == InitTracks /\ [][GetTracks]_vars

\* an event the variant can be assembled from: a muon event has the empty
\* neutrino row and at least one muon, a neutrino event has a primary track
WellFormed ==
    CASE file_particle_type = "undefined" -> TRUE
      [] file_particle_type = "muon" ->
             /\ Len(event_blob.McTracks) >= 2
             /\ \A i \in DOMAIN event_blob.McTracks : event_blob.McTracks[i].bjorkeny = 0
      [] file_particle_type = "neutrino" ->
             \E i \in DOMAIN event_blob.McTracks : event_blob.McTracks[i].bjorkeny # 0
      [] OTHER -> FALSE

\* C9: for a well-formed event get_tracks returns a vector of 3 ('undefined')
\* or 14 ('muon', 'neutrino') fields, one more with a production identifier;
\* the last variant field of a muon event is the track count minus 1.
TrackLayoutLength ==
    (event_track # NotCalled /\ WellFormed) =>
        /\ event_track.raised = "none"
        /\ Len(event_track.value) =
               (IF file_particle_type = "undefined" THEN 3 ELSE 14)
                   + (IF prod_ident = None THEN 0 ELSE 1)
        /\ file_particle_type = "muon" =>
               event_track.value[14] = Len(event_blob.McTracks) - 1

(***************************************************************************)
(* get_hits(event_blob, geo, do_mc_hits, data_cuts, do4d)                  *)
(*                                                                         *)
(* A hit table is a record of its column names (dtype.names) and its rows; *)
(* a matrix is a record of its shape and its rows.  The tuple do4d is      *)
(* 1-based here: do4d[1] is the flag, do4d[2] the name of the 4th          *)
(* dimension.                                                              *)
(***************************************************************************)
\* most rows of the Hits table of an event
MaxHitRows == 2

RawColumns == {"dom_id", "channel_id", "time", "triggered"}
PosColumns == {"pos_x", "pos_y", "pos_z"}

Table(names, rows) == [names |-> names, rows |-> rows]
Matrix(ncols, rows) == [shape |-> <<Len(rows), ncols>>, rows |-> rows]

RawHit(dom_id, channel_id, time, triggered) ==
    [dom_id |-> dom_id, channel_id |-> channel_id, time |-> time, triggered |-> triggered]

\* the row with the position the geometry has for its PMT
Located(h) ==
    [dom_id |-> h.dom_id, channel_id |-> h.channel_id, time |-> h.time,
     triggered |-> h.triggered,
     pos_x |-> h.dom_id, pos_y |-> h.channel_id, pos_z |-> h.dom_id + h.channel_id]

\* geo.apply(hits): the table with the position columns.  What the service
\* does with a table that has them already is the library's choice: it
\* writes them again (again = "overwrite") or refuses (again = "raise").
geo_apply(hits, again) ==
    IF "pos_x" \in hits.names
    THEN IF again = "raise" THEN Raise("ValueError") ELSE Returned(hits)
    ELSE Returned(Table(hits.names \cup PosColumns,
                        [i \in DOMAIN hits.rows |-> Located(hits.rows[i])]))

\* hits.triggered.astype(bool)
Truthy(x) == x # 0

\* hits.__array__[hits.triggered.astype(bool)]: the rows with a truthy
\* trigger flag where the table's __array__ is the array itself
\* (array_attr = "array"); where it is numpy's method, subscripting it is a
\* TypeError (array_attr = "method").
triggered_rows(hits, array_attr) ==
    LET IsTriggered(h) == Truthy(h.triggered)
    IN  IF array_attr = "method" THEN Raise("TypeError")
        ELSE Returned(Table(hits.names, SelectSeq(hits.rows, IsTriggered)))

\* do4d[0] is True and do4d[1] == 'channel_id' or do4d[1] == 'xzt-c':
\* "and" binds tighter than "or"
append_channel_id(d4) == (d4[1] = TRUE /\ d4[2] = "channel_id") \/ d4[2] = "xzt-c"

\* The result is [raised, value, applied]: applied lists the names of the
\* tables geo.apply was called with.
get_hits(blob, g, mc, cuts, d4, again, array_attr) ==
    LET selected == IF mc = FALSE THEN "Hits" ELSE "McHits"
        hits == blob[selected]
        \* the test reads event_blob['Hits'], whichever table was selected
        calibrate == "pos_x" \notin blob.Hits.names
        applied == IF calibrate /\ g # None THEN <<selected>> ELSE << >>
        Out(r) == [raised |-> r.raised, value |-> r.value, applied |-> applied]
        hits1 == IF calibrate THEN geo_apply(hits, again) ELSE Returned(hits)
    IN  IF calibrate /\ g = None THEN Out(Raise("AttributeError"))
        ELSE IF hits1.raised # "none" THEN Out(hits1)
        ELSE LET hits2 == IF cuts.triggered = TRUE
                          THEN triggered_rows(hits1.value, array_attr)
                          ELSE hits1
             IN  IF hits2.raised # "none" THEN Out(hits2)
                 ELSE IF "pos_x" \notin hits2.value.names THEN Out(Raise("AttributeError"))
                 ELSE LET rows == hits2.value.rows
                          five == [i \in DOMAIN rows |->
                                      <<rows[i].pos_x, rows[i].pos_y, rows[i].pos_z,
                                        rows[i].time, rows[i].triggered>>]
                      IN  IF append_channel_id(d4)
                          THEN Out(Returned(Matrix(6,
                                   [i \in DOMAIN rows |->
                                       Append(five[i], rows[i].channel_id)])))
                          ELSE Out(Returned(Matrix(5, five)))

\* the rows that are drawn: the channel and the trigger flag vary
HitRowOptions == {RawHit(1, c, 10, t) : c \in 0..1, t \in 0..1}
McHitRowOptions == {RawHit(2, 2, 20, t) : t \in 0..1}

\* a table as the file holds it: raw, or calibrated when the file was made
StoredTable(rows, calibrated) ==
    IF calibrated THEN geo_apply(Table(RawColumns, rows), "overwrite").value
    ELSE Table(RawColumns, rows)

Do4dOptions == BOOLEAN \X {"time", "channel_id", "xzt-c"}

InitHits ==
    /\ IdleSplit /\ IdleMain /\ IdleRepro /\ IdleTracks
    /\ \E hr \in SeqsUpTo(HitRowOptions, MaxHitRows), mr \in SeqsUpTo(McHitRowOptions, MaxHits),
          hc \in BOOLEAN, mcal \in BOOLEAN :
          hits_blob = [Hits |-> StoredTable(hr, hc), McHits |-> StoredTable(mr, mcal)]
    /\ geo \in {None, <<"geo">>}
    /\ do_mc_hits \in BOOLEAN
    /\ data_cuts \in [triggered : BOOLEAN]
    /\ do4d \in Do4dOptions
    /\ geo_applied = << >>
    /\ hits_return = NotCalled

GetHits ==
    /\ hits_return = NotCalled
    /\ \E again \in {"overwrite", "raise"}, array_attr \in {"array", "method"} :
          LET r == get_hits(hits_blob, geo, do_mc_hits, data_cuts, do4d, again, array_attr)
          IN  /\ hits_return' = [raised |-> r.raised, value |-> r.value]
              /\ geo_applied' = r.applied
    /\ UNCHANGED <<hits_blob, geo, do_mc_hits, data_cuts, do4d>>
    /\ UNCHANGED <<varsSplit, varsMain, varsRepro, varsTracks>>

SpecHits == InitHits /\ [][GetHits]_vars

\* the table get_hits selected
SelectedTable == IF do_mc_hits = FALSE THEN hits_blob.Hits ELSE hits_blob.McHits

\* the rows of the selected table that the trigger filter lets through
Surviving ==
    LET IsTriggered(h) == Truthy(h.triggered)
    IN  IF data_cuts.triggered = TRUE THEN SelectSeq(SelectedTable.rows, IsTriggered)
        ELSE SelectedTable.rows

\* C11: the matrix get_hits returns has 6 columns exactly when 4D mode is
\* enabled and the 4th dimension is the channel id, 5 columns in every other
\* configuration, and as many rows as hits survive the trigger filter.
HitColumnsByMode ==
    (hits_return # NotCalled /\ hits_return.raised = "none") =>
        /\ hits_return.value.shape[2] =
               (IF do4d[1] = TRUE /\ do4d[2] = "channel_id" THEN 6 ELSE 5)
        /\ \A i \in DOMAIN hits_return.value.rows :
               Len(hits_return.value.rows[i]) = hits_return.value.shape[2]
        /\ hits_return.value.shape[1] = Len(Surviving)

\* the name of the table get_hits selected
SelectedName == IF do_mc_hits = FALSE THEN "Hits" ELSE "McHits"

\* C12: with a geometry at hand, get_hits hands the selected table to
\* geo.apply (once) exactly when that table has no position columns, and
\* calls geo.apply for no table that has them.
CalibratedWhenSelectedLacksPos ==
    (hits_return # NotCalled /\ geo # None) =>
        geo_applied = (IF "pos_x" \notin SelectedTable.names
                       THEN <<SelectedName>> ELSE << >>)

====
